---- MODULE Spec2Model ----
(***************************************************************************)
(* Task orchestration and persistence kernel of cairn: the SQLite task     *)
(* store, the debounced PersistentDict live handle, the WorkerManager      *)
(* (create / monitor / remove / cleanup), the agent_worker child process,   *)
(* the agent wrapper and the agent loop.                                   *)
(*                                                                         *)
(* The specifications of this module:                                      *)
(*   Spec        the manager, its children and the store (time = epoch     *)
(*               seconds, handles keep the debounce state as               *)
(*               recent/pending); a behaviour creates engineer (SWE)       *)
(*               tasks or a manager (PM) task,                             *)
(*   SpecPD      one PersistentDict mutated by several threads under a     *)
(*               discrete clock that measures the debounce interval,       *)
(*   SpecLog     the AgentLogger of one run,                               *)
(*   SpecLLM     the retry loop around one LLM call,                       *)
(*   SpecRouter  should_continue on bounded message histories,             *)
(*   SpecLoop    the agent graph of one run, SpecLoopFair the same with    *)
(*               every started step of the graph returning,                *)
(*   SpecStore   the run_ids column and the subtask_ids table,             *)
(*   SpecDebug   the debug_messages table,                                 *)
(*   SpecBatch   one invocation of the batch tool,                         *)
(*   SpecLoggers the AgentLogger objects of a delegated engineer run.      *)
(***************************************************************************)
EXTENDS Integers, Sequences, FiniteSets, TLC

(***************************************************************************)
(* Bounds of the model                                                     *)
(***************************************************************************)
MaxTime == 1        \* epoch seconds run over 0..MaxTime
MaxProc == 2        \* child processes spawned in one behaviour
MaxHandles == 4     \* PersistentDict objects alive at the same time
MaxSWE == 2         \* engineer tasks created in a behaviour without a manager task
MaxPM == 1          \* manager tasks created in a behaviour without engineer tasks
MaxBatch == 2       \* tool calls in the assistant turn that ends a run

\* the exit status Popen reports for a child ended by a signal
SIGTERM == -15
SIGKILL == -9

(***************************************************************************)
(* Identifiers                                                             *)
(***************************************************************************)
\* create_task_sync names a task "task_<epoch seconds>": the id is the second
MgrIds == 0..MaxTime
\* pm.py names the delegated engineer run "<run_id>_swe"
SweOf(id) == id + MaxTime + 1
TaskIds == 0..(2 * MaxTime + 1)
Pids == 1..MaxProc
Procs == 0..MaxProc          \* 0 is the manager process
HIds == 1..MaxHandles

NoRow == [none |-> TRUE]
NoHandle == [nohandle |-> TRUE]

AgentTypes == {"SWE", "PM"}

\* tool outputs as tool_execution_node records them: a dict returned by
\* generate_output (end_task = True), a dict of any other tool, or the error
\* string of a failed tool call
GenOut == [kind |-> "generate_output", end_task |-> TRUE]
ToolOut == [kind |-> "tool", end_task |-> FALSE]
ErrOut == [kind |-> "error_string", end_task |-> FALSE]
EmptyOut == [kind |-> "empty", end_task |-> FALSE]
ToolOutputs == {GenOut, ToolOut, ErrOut}

VARIABLES
    now,            \* int(time.time())
    active_tasks,   \* table active_tasks: task_id -> payload
    task_logs,      \* table task_logs: run_id -> log_data (agent_logger)
    handles,        \* the PersistentDict objects of all processes
    timers,         \* per process, the started threading.Timer objects (FIFO)
    mgr_active,     \* WorkerManager.active_tasks: task_id -> handle
    running_tasks,  \* WorkerManager.running_tasks: task_id -> child
    children,       \* the child processes
    mgr,            \* the operation the manager's main thread is executing
    completed,      \* monitor_worker_processes: completed_tasks of this pass
    returned,       \* run ids returned by create_task_sync so far
    quota,          \* tasks of each agent type still to be created
    pd,             \* the PersistentDict of SpecPD
    lg,             \* the AgentLogger of SpecLog
    llm,            \* the LLM turn of SpecLLM
    ex,             \* the agent graph run of SpecLoop
    fn,             \* the routed AgentState of SpecRouter
    st,             \* the run_ids and subtask_ids rows of SpecStore
    bt              \* the batch tool invocation of SpecBatch

vars == <<now, active_tasks, task_logs, handles, timers, mgr_active,
          running_tasks, children, mgr, completed, returned, quota, pd,
          lg, llm, ex, fn, st, bt>>

kvars == <<now, active_tasks, task_logs, handles, timers, mgr_active,
           running_tasks, children, mgr, completed, returned, quota>>

\* the variables of the agent-side specifications
avars == <<lg, llm, ex, fn, st, bt>>

(***************************************************************************)
(* The store and the live handles, as functions of a state record          *)
(*   S = [rows, logs, hs, tq]                                              *)
(* so that a handler's statements compose in program order.                *)
(***************************************************************************)
Cur == [rows |-> active_tasks, logs |-> task_logs, hs |-> handles, tq |-> timers]

\* add_active_task with the INSERT left out
add_active_task_skipped(S, id, payload) == S

\* TaskStorage.add_active_task: INSERT OR REPLACE
add_active_task(S, id, payload) ==
    [S EXCEPT !.rows[id] = payload]

\* TaskStorage.update_active_task: UPDATE ... WHERE task_id = ?
update_active_task(S, id, payload) ==
    IF S.rows[id] = NoRow THEN S ELSE [S EXCEPT !.rows[id] = payload]

\* TaskStorage.remove_active_task: DELETE FROM active_tasks
remove_active_task(S, id) ==
    [S EXCEPT !.rows[id] = NoRow]

\* TaskStorage.save_log: INSERT OR REPLACE on (run_id, agent_type)
save_log(S, id, log) ==
    [S EXCEPT !.logs[id] = log]

\* the lowest free PersistentDict slot
FreeH(S) == CHOOSE h \in HIds : S.hs[h] = NoHandle /\ \A g \in HIds : g < h => S.hs[g] # NoHandle
HasFree(S) == \E h \in HIds : S.hs[h] = NoHandle

\* PersistentDict.__init__: _last_save_time = 0, _pending_save = False
PersistentDict(S, proc, kind, id, data) ==
    [S EXCEPT !.hs[FreeH(S)] =
        [task |-> id, kind |-> kind, mem |-> data, recent |-> FALSE,
         pending |-> FALSE, proc |-> proc, held |-> TRUE]]

\* PersistentDict._save_to_db with the save callbacks of
\* get_active_task_persistent / create_active_task_persistent / create_log_persistent
_save_to_db(S, h) ==
    LET d == S.hs[h]
        T == IF d.kind = "task" THEN update_active_task(S, d.task, d.mem)
                                ELSE save_log(S, d.task, d.mem)
    IN [T EXCEPT !.hs[h].recent = TRUE]

\* PersistentDict._schedule_save
_schedule_save(S, h) ==
    IF ~S.hs[h].recent
    THEN _save_to_db(S, h)
    ELSE IF ~S.hs[h].pending
         THEN [S EXCEPT !.hs[h].pending = TRUE,
                        !.tq[S.hs[h].proc] = Append(@, h)]
         ELSE S

\* PersistentDict.__setitem__ / update: change the dict, then _schedule_save
SetItem(S, h, newmem) ==
    _schedule_save([S EXCEPT !.hs[h].mem = newmem], h)

\* a mutation of a nested list (payload["child_run_ids"].append): the dict
\* object changes but no PersistentDict method runs
NestedAppend(S, h, newmem) ==
    [S EXCEPT !.hs[h].mem = newmem]

\* PersistentDict._delayed_save
_delayed_save(S, h) ==
    IF S.hs[h].pending
    THEN [_save_to_db(S, h) EXCEPT !.hs[h].pending = FALSE]
    ELSE S

\* a handle no variable refers to any more
Drop(S, h) == [S EXCEPT !.hs[h].held = FALSE]

\* objects that nothing refers to and that have no timer are collected
Collect(S) ==
    [S EXCEPT !.hs = [h \in HIds |->
        IF S.hs[h] # NoHandle /\ ~S.hs[h].held /\ ~S.hs[h].pending
        THEN NoHandle ELSE S.hs[h]]]

\* a process that ends takes its objects and timers with it
EndProcess(S, p) ==
    [S EXCEPT !.hs = [h \in HIds |->
                        IF S.hs[h] # NoHandle /\ S.hs[h].proc = p
                        THEN NoHandle ELSE S.hs[h]],
              !.tq[p] = <<>>]

Commit(S) ==
    LET T == Collect(S)
    IN /\ active_tasks' = T.rows
       /\ task_logs' = T.logs
       /\ handles' = T.hs
       /\ timers' = T.tq

(***************************************************************************)
(* Payloads                                                                *)
(***************************************************************************)
Statuses == {"Queued", "Running", "Completed", "Failed", "Failed - Process Error"}

\* AgentStatus: the values of the enum that types TaskStoragePayload.agent_status
AgentStatus == {"Queued", "Running", "Completed", "Failed",
                "Subtasks Generated", "Subtasks Running"}

\* create_task_sync: the initial payload of a task
NewPayload(type) ==
    [agent_status |-> "Queued", agent_type |-> type, agent_output |-> EmptyOut,
     error |-> FALSE, has_child_run_ids |-> FALSE, child_run_ids |-> {},
     has_related_log_ids |-> FALSE]

\* delegate_task: the payload of the delegated engineer run
swe_payload ==
    [agent_status |-> "Running", agent_type |-> "SWE", agent_output |-> EmptyOut,
     error |-> FALSE, has_child_run_ids |-> FALSE, child_run_ids |-> {},
     has_related_log_ids |-> FALSE]

\* AgentLogger._setup_log_document: the initial log document
initial_log_data == [progress |-> <<>>]

\* a child process: its task, its position in run_agent_task, its exit status,
\* its live handles; outcome and last record how the run inside wrapper ended
\* ("raised", or "completed" with the last tool output of the final state)
NoChild == [task |-> 0, pc |-> "unborn", rc |-> 0, payload |-> 0, dh |-> 0,
            outcome |-> "none", last |-> EmptyOut]
Idle == [op |-> "idle", pc |-> "idle", id |-> 0, proc |-> 0]

Alive(p) == children[p].pc \notin {"unborn", "dead"}
FreeCount(S) == Cardinality({h \in HIds : S.hs[h] = NoHandle})
\* the process ends: normal interpreter exit or death by signal
Exited(ch, p, code) == [ch EXCEPT ![p] = [NoChild EXCEPT !.task = ch[p].task,
                                                         !.pc = "dead", !.rc = code]]

(***************************************************************************)
(* Kernel: initial state                                                   *)
(***************************************************************************)
KInit ==
    /\ now = 0
    /\ active_tasks = [id \in TaskIds |-> NoRow]
    /\ task_logs = [id \in TaskIds |-> NoRow]
    /\ handles = [h \in HIds |-> NoHandle]
    /\ timers = [p \in Procs |-> <<>>]
    /\ mgr_active = [id \in TaskIds |-> 0]
    /\ running_tasks = [id \in TaskIds |-> 0]
    /\ children = [p \in Pids |-> NoChild]
    /\ mgr = Idle
    /\ completed = <<>>
    /\ returned = <<>>

(***************************************************************************)
(* WorkerManager.create_task_sync                                          *)
(***************************************************************************)
\* lines 186-228: task_id = f"task_{int(time.time())}", build the payload,
\* create_active_task_persistent, cache the handle in active_tasks
CreateTaskBegin(type) ==
    /\ mgr.op = "idle"
    /\ quota[type] > 0
    /\ \E p \in Pids : children[p].pc = "unborn"
    /\ HasFree(Cur)
    /\ LET id == now
           S1 == add_active_task(Cur, id, NewPayload(type))
           h  == FreeH(S1)
           S2 == PersistentDict(S1, 0, "task", id, NewPayload(type))
           S3 == IF mgr_active[id] # 0 THEN Drop(S2, mgr_active[id]) ELSE S2
       IN /\ Commit(S3)
          /\ mgr_active' = [mgr_active EXCEPT ![id] = h]
          /\ mgr' = [op |-> "create", pc |-> "spawn", id |-> id, proc |-> 0]
          /\ quota' = [quota EXCEPT ![type] = @ - 1]
    /\ UNCHANGED <<now, running_tasks, children, completed, returned, pd, avars>>

\* lines 230-238: a failed run_worker_process (Popen raised) sets the status
\* "Failed - Process Error" and updated_at
SpawnFailed(S, h) ==
    LET S1 == SetItem(S, h, [S.hs[h].mem EXCEPT !.agent_status = "Failed - Process Error"])
    IN SetItem(S1, h, S1.hs[h].mem)

\* the process id of the next child
NextPid == CHOOSE q \in Pids : /\ children[q].pc = "unborn"
                               /\ \A r \in Pids : r < q => children[r].pc # "unborn"

\* lines 230-241: run_worker_process, running_tasks[task_id] = process,
\* return task_id (also after a failed spawn)
CreateTaskSpawn ==
    /\ mgr.op = "create"
    /\ \/ /\ children' = [children EXCEPT ![NextPid] = [NoChild EXCEPT !.task = mgr.id, !.pc = "start"]]
          /\ running_tasks' = [running_tasks EXCEPT ![mgr.id] = NextPid]
          /\ UNCHANGED <<active_tasks, task_logs, handles, timers>>
       \/ /\ Commit(SpawnFailed(Cur, mgr_active[mgr.id]))
          /\ UNCHANGED <<children, running_tasks>>
    /\ returned' = Append(returned, mgr.id)
    /\ mgr' = Idle
    /\ UNCHANGED <<now, mgr_active, completed, quota, pd, avars>>

(***************************************************************************)
(* agent_worker.worker.run_agent_task and cairn_utils.agents.wrapper       *)
(***************************************************************************)
\* time.time() - _last_save_time >= debounce_interval when a handler resumes
\* after an await: the handle's last save is no longer recent.  Its own timer,
\* started after that save, may still be waiting; any other timer is older.
CanBeLate(S, h) ==
    /\ S.hs[h].recent
    /\ S.tq[S.hs[h].proc] \in {<<>>, <<h>>}

Aged(S, h, late) ==
    IF late THEN [S EXCEPT !.hs[h].recent = FALSE] ELSE S

\* worker.py 71-84: the except branch of run_agent_task: a second live handle
\* is loaded from the store and set to Failed (no error text is written)
WorkerExcept(S, p) ==
    LET id == children[p].task
    IN IF S.rows[id] = NoRow
       THEN S
       ELSE LET h  == FreeH(S)
                S1 == PersistentDict(S, p, "task", id, S.rows[id])
                S2 == SetItem(S1, h, [S1.hs[h].mem EXCEPT !.agent_status = "Failed"])
                S3 == SetItem(S2, h, S2.hs[h].mem)
            IN Drop(S3, h)

\* worker.py 53-55: agent_status = "Running", updated_at
MarkRunning(S, h) ==
    LET S1 == SetItem(S, h, [S.hs[h].mem EXCEPT !.agent_status = "Running"])
    IN SetItem(S1, h, S1.hs[h].mem)

\* wrapper.py 155-168: the branch name is stored, then update({Running, ...})
WrapperEnter(S, h) ==
    LET S1 == SetItem(S, h, S.hs[h].mem)
    IN SetItem(S1, h, [S1.hs[h].mem EXCEPT !.agent_status = "Running"])

\* worker.py 38-61 and wrapper.py 84-168, up to the first await: load the
\* payload as a live handle (return if the row is missing), mark it Running,
\* enter the wrapper.  An exception before the wrapper's try block
\* (int(os.getenv("GITHUB_INSTALLATION_ID")), the sibling lookup) leaves the
\* wrapper and is caught by run_agent_task.
WorkerStart(p) ==
    /\ children[p].pc = "start"
    /\ LET id == children[p].task
       IN IF active_tasks[id] = NoRow
          THEN /\ children' = [children EXCEPT ![p].pc = "exiting"]
               /\ UNCHANGED <<active_tasks, task_logs, handles, timers>>
          ELSE /\ FreeCount(Cur) >= 2
               /\ LET h  == FreeH(Cur)
                      S1 == PersistentDict(Cur, p, "task", id, active_tasks[id])
                      S2 == MarkRunning(S1, h)
                  IN \/ /\ Commit(WorkerExcept(S2, p))
                        /\ children' = [children EXCEPT ![p].pc = "exiting", ![p].payload = h,
                                                        ![p].outcome = "raised"]
                     \/ /\ Commit(WrapperEnter(S2, h))
                        /\ children' = [children EXCEPT ![p].pc = "setup", ![p].payload = h]
    /\ UNCHANGED <<now, mgr_active, running_tasks, mgr, completed, returned, quota, pd, avars>>

\* wrapper.py 251-260 then worker.py 65-66: the except branch of the wrapper
\* records Failed and the error; run_agent_task updates the payload with the
\* result and sets updated_at
WrapperExcept(S, p) ==
    LET h  == children[p].payload
        S1 == SetItem(S, h, [S.hs[h].mem EXCEPT !.agent_status = "Failed", !.error = TRUE])
        S2 == SetItem(S1, h, S1.hs[h].mem)
    IN SetItem(S2, h, S2.hs[h].mem)

\* AgentLogger._setup_log_document: the log row of a run is written back as
\* found, or created empty
SetupLog(S, run_id) ==
    IF S.logs[run_id] = NoRow THEN save_log(S, run_id, initial_log_data)
                              ELSE save_log(S, run_id, S.logs[run_id])

\* wrapper.py 173-214: agent.setup creates the AgentLogger of the run (a
\* Manager first sets up its engineer, run "<id>_swe"); setup may raise
AgentSetup(p) ==
    /\ children[p].pc = "setup"
    /\ LET id == children[p].task
           h  == children[p].payload
       IN \E late \in BOOLEAN :
            /\ late => CanBeLate(Cur, h)
            /\ \/ /\ Commit(WrapperExcept(Aged(Cur, h, late), p))
                  /\ children' = [children EXCEPT ![p].pc = "exiting", ![p].outcome = "raised"]
               \/ /\ ~late
                  /\ Commit(SetupLog(IF Cur.hs[h].mem.agent_type = "PM"
                                     THEN SetupLog(Cur, SweOf(id)) ELSE Cur, id))
                  /\ children' = [children EXCEPT ![p].pc = "run"]
    /\ UNCHANGED <<now, mgr_active, running_tasks, mgr, completed, returned, quota, pd, avars>>

\* the assistant turns that can end a run: should_continue returns END only
\* after a tool step one of whose results has end_task = true
FinalBatches ==
    {b \in UNION {[1..n -> ToolOutputs] : n \in 1..MaxBatch} :
        \E i \in DOMAIN b : b[i].end_task}

\* wrapper.py 218: final_state['tool_outputs'][-1]['tool_output']
LastToolOutput(b) == b[Len(b)]

\* wrapper.py 220-224: what the wrapper stores on normal completion
CompletedUpdate(mem, generated_output) ==
    [mem EXCEPT !.agent_output = generated_output, !.agent_status = "Completed"]

\* wrapper.py 218-249 then worker.py 65-66
WrapperFinish(S, p, generated_output) ==
    LET h  == children[p].payload
        S1 == SetItem(S, h, CompletedUpdate(S.hs[h].mem, generated_output))
        S2 == SetItem(S1, h, S1.hs[h].mem)
    IN SetItem(S2, h, S2.hs[h].mem)

\* AgentLogger.log_message while the graph runs (reformat_messages 109-111,
\* query_llm_get_new_state 277-278, tool_execution_node 422-423): the log
\* handle of the run flushes through save_log on (run_id, "agent_logger");
\* the kernel keeps no progress entries
LogMessages(S, run_id) == save_log(S, run_id, initial_log_data)

\* wrapper.py 217-260: agent.run / agent.implement_task returns after a final
\* tool step, having logged its messages, or raises (LLM retries exhausted)
AgentRun(p) ==
    /\ children[p].pc = "run"
    /\ LET h == children[p].payload
       IN \E late \in BOOLEAN :
            /\ late => CanBeLate(Cur, h)
            /\ \/ /\ Commit(WrapperExcept(Aged(Cur, h, late), p))
                  /\ children' = [children EXCEPT ![p].pc = "exiting", ![p].outcome = "raised"]
               \/ \E b \in FinalBatches :
                     /\ Commit(WrapperFinish(LogMessages(Aged(Cur, h, late), children[p].task),
                                             p, LastToolOutput(b)))
                     /\ children' = [children EXCEPT ![p].pc = "exiting",
                                                     ![p].outcome = "completed",
                                                     ![p].last = LastToolOutput(b)]
    /\ UNCHANGED <<now, mgr_active, running_tasks, mgr, completed, returned, quota, pd, avars>>

\* worker.py 97: asyncio.run returns and the interpreter exits with status 0
\* once its non-daemon Timer threads have run
ChildExit(p) ==
    /\ children[p].pc = "exiting"
    /\ timers[p] = <<>>
    /\ Commit(EndProcess(Cur, p))
    /\ children' = Exited(children, p, 0)
    /\ UNCHANGED <<now, mgr_active, running_tasks, mgr, completed, returned, quota, pd, avars>>

\* the child is killed from outside (SIGKILL): nothing more is flushed
ChildCrash(p) ==
    /\ Alive(p)
    /\ Commit(EndProcess(Cur, p))
    /\ children' = Exited(children, p, SIGKILL)
    /\ UNCHANGED <<now, mgr_active, running_tasks, mgr, completed, returned, quota, pd, avars>>

(***************************************************************************)
(* toolbox.get_delegate_task_tool: a Manager run delegates to its engineer *)
(***************************************************************************)
\* toolbox.py 876-884: record the delegated run in the parent's child_run_ids
\* through a live handle loaded from the store
RecordChild(S, p, parent_id, task_id) ==
    IF S.rows[parent_id] = NoRow
    THEN S
    ELSE LET h  == FreeH(S)
             S1 == PersistentDict(S, p, "task", parent_id, S.rows[parent_id])
             S2 == IF ~S1.hs[h].mem.has_child_run_ids
                   THEN SetItem(S1, h, [S1.hs[h].mem EXCEPT !.has_child_run_ids = TRUE,
                                                            !.child_run_ids = {}])
                   ELSE S1
             S3 == NestedAppend(S2, h, [S2.hs[h].mem EXCEPT !.child_run_ids = @ \cup {task_id}])
             S4 == SetItem(S3, h, S3.hs[h].mem)
         IN Drop(S4, h)

\* toolbox.py 843-888: the row of the delegated run is created with status
\* Running under the engineer's run id, then the engineer starts
DelegateBegin(p) ==
    /\ children[p].pc = "run"
    /\ Cur.hs[children[p].payload].mem.agent_type = "PM"
    /\ FreeCount(Cur) >= 2
    /\ LET parent_id == children[p].task
           task_id   == SweOf(parent_id)
           S1 == add_active_task(Cur, task_id, swe_payload)
           dh == FreeH(S1)
           S2 == PersistentDict(S1, p, "task", task_id, swe_payload)
           S3 == RecordChild(S2, p, parent_id, task_id)
       IN /\ Commit(S3)
          /\ children' = [children EXCEPT ![p].pc = "delegating", ![p].dh = dh]
    /\ UNCHANGED <<now, mgr_active, running_tasks, mgr, completed, returned, quota, pd, avars>>

\* toolbox.py 890-900: when the engineer's log row exists, the parent's row is
\* loaded as a live handle and given a "related_log_ids" list if it has none;
\* the append to that list runs no PersistentDict method
RecordLogs(S, p, parent_id, task_id) ==
    IF S.logs[task_id] = NoRow \/ S.rows[parent_id] = NoRow
    THEN S
    ELSE LET h  == FreeH(S)
             S1 == PersistentDict(S, p, "task", parent_id, S.rows[parent_id])
             S2 == IF ~S1.hs[h].mem.has_related_log_ids
                   THEN SetItem(S1, h, [S1.hs[h].mem EXCEPT !.has_related_log_ids = TRUE])
                   ELSE S1
         IN Drop(S2, h)

\* toolbox.py 916-920: the except branch of delegate_task
DelegateFailed(S, dh) ==
    LET S1 == SetItem(S, dh, [S.hs[dh].mem EXCEPT !.agent_status = "Failed"])
    IN SetItem(S1, dh, S1.hs[dh].mem)

\* toolbox.py 902-915: status Completed, then the engineer's last tool output
\* with end_task set to False becomes agent_output (a string output raises)
DelegateDone(S, dh, last_tool_call) ==
    LET S1 == SetItem(S, dh, [S.hs[dh].mem EXCEPT !.agent_status = "Completed"])
        S2 == SetItem(S1, dh, S1.hs[dh].mem)
    IN IF last_tool_call.kind = "error_string"
       THEN DelegateFailed(S2, dh)
       ELSE SetItem(S2, dh, [S2.hs[dh].mem EXCEPT
                                !.agent_output = [last_tool_call EXCEPT !.end_task = FALSE]])

\* toolbox.py 888-928: the engineer returns or raises; the Manager's loop
\* goes on with the tool result
DelegateEnd(p) ==
    /\ children[p].pc = "delegating"
    /\ HasFree(Cur)
    /\ LET dh == children[p].dh
       IN \E late \in BOOLEAN :
            /\ late => CanBeLate(Cur, dh)
            /\ \/ Commit(Drop(DelegateFailed(Aged(Cur, dh, late), dh), dh))
               \/ \E b \in FinalBatches :
                     Commit(Drop(DelegateDone(
                                RecordLogs(Aged(Cur, dh, late), p, children[p].task,
                                           SweOf(children[p].task)),
                                dh, LastToolOutput(b)), dh))
    /\ children' = [children EXCEPT ![p].pc = "run", ![p].dh = 0]
    /\ UNCHANGED <<now, mgr_active, running_tasks, mgr, completed, returned, quota, pd, avars>>

(***************************************************************************)
(* WorkerManager.monitor_worker_processes                                  *)
(***************************************************************************)
\* WorkerManager.get_task: the handle cached in active_tasks, else a new live
\* handle loaded from the store and cached; 0 when there is neither
GetTaskHandle(S, id) ==
    IF mgr_active[id] # 0 THEN mgr_active[id]
    ELSE IF S.rows[id] # NoRow THEN FreeH(S) ELSE 0

GetTaskState(S, id) ==
    IF mgr_active[id] = 0 /\ S.rows[id] # NoRow
    THEN PersistentDict(S, 0, "task", id, S.rows[id])
    ELSE S

\* the reconciliation without the test of agent_status: a child that exited
\* with a non-zero status is marked Failed whatever the handle shows
Reconcile_unguarded(S, id, return_code) ==
    LET S0   == GetTaskState(S, id)
        task == GetTaskHandle(S, id)
    IN IF task # 0 /\ return_code # 0
       THEN LET S1 == SetItem(S0, task, [S0.hs[task].mem EXCEPT !.agent_status = "Failed"])
            IN SetItem(S1, task, S1.hs[task].mem)
       ELSE S0

\* lines 1438-1451: the reconciliation of one exited child
Reconcile(S, id, return_code) ==
    LET S0   == GetTaskState(S, id)
        task == GetTaskHandle(S, id)
    IN IF task # 0 /\ S0.hs[task].mem.agent_status = "Running"
       THEN IF return_code = 0
            THEN IF S0.rows[id] # NoRow /\ S0.rows[id].agent_status = "Running"
                 THEN LET u  == FreeH(S0)
                          S1 == PersistentDict(S0, 0, "task", id, S0.rows[id])
                          S2 == SetItem(S1, u, [S1.hs[u].mem EXCEPT !.agent_status = "Completed"])
                          S3 == SetItem(S2, u, S2.hs[u].mem)
                      IN Drop(S3, u)
                 ELSE S0
            ELSE LET S1 == SetItem(S0, task, [S0.hs[task].mem EXCEPT !.agent_status = "Failed"])
                 IN SetItem(S1, task, S1.hs[task].mem)
       ELSE S0

\* lines 1427-1453: one child of the pass has exited (poll() is not None)
MonitorPoll(id) ==
    /\ running_tasks[id] # 0
    /\ \A i \in DOMAIN completed : completed[i] # id
    /\ children[running_tasks[id]].pc = "dead"
    /\ FreeCount(Cur) >= 2
    /\ Commit(Reconcile(Cur, id, children[running_tasks[id]].rc))
    /\ mgr_active' = [mgr_active EXCEPT ![id] = GetTaskHandle(Cur, id)]
    /\ completed' = Append(completed, id)
    /\ UNCHANGED <<now, running_tasks, children, mgr, returned, quota, pd, avars>>

\* lines 1455-1457: "for task_id in completed_tasks: del running_tasks[task_id]";
\* a key that remove_task has deleted meanwhile raises KeyError and ends the pass
RECURSIVE DelCompleted(_, _)
DelCompleted(rt, c) ==
    IF c = <<>> \/ rt[Head(c)] = 0 THEN rt
    ELSE DelCompleted([rt EXCEPT ![Head(c)] = 0], Tail(c))

MonitorReap ==
    /\ completed # <<>>
    /\ running_tasks' = DelCompleted(running_tasks, completed)
    /\ completed' = <<>>
    /\ UNCHANGED <<now, active_tasks, task_logs, handles, timers, mgr_active,
                   children, mgr, returned, quota, pd, avars>>

(***************************************************************************)
(* WorkerManager.remove_task                                               *)
(***************************************************************************)
\* lines 1469-1483: if the task has a child that is still running, SIGTERM is
\* sent to its process group; the child ends at once or outlives wait(5)
RemoveTaskBegin(id) ==
    /\ mgr.op = "idle"
    /\ active_tasks[id] # NoRow \/ running_tasks[id] # 0
    /\ LET p == running_tasks[id]
       IN IF p = 0
          THEN /\ mgr' = [op |-> "remove", pc |-> "delete", id |-> id, proc |-> 0]
               /\ UNCHANGED <<active_tasks, task_logs, handles, timers, children>>
          ELSE IF ~Alive(p)
               THEN /\ mgr' = [op |-> "remove", pc |-> "reap", id |-> id, proc |-> p]
                    /\ UNCHANGED <<active_tasks, task_logs, handles, timers, children>>
               ELSE \/ /\ Commit(EndProcess(Cur, p))
                       /\ children' = Exited(children, p, SIGTERM)
                       /\ mgr' = [op |-> "remove", pc |-> "reap", id |-> id, proc |-> p]
                    \/ /\ mgr' = [op |-> "remove", pc |-> "kill", id |-> id, proc |-> p]
                       /\ UNCHANGED <<active_tasks, task_logs, handles, timers, children>>
    /\ UNCHANGED <<now, mgr_active, running_tasks, completed, returned, quota, pd, avars>>

\* lines 1488-1499: wait(5) timed out, SIGKILL to the process group
RemoveTaskKill ==
    /\ mgr.op = "remove" /\ mgr.pc = "kill"
    /\ IF Alive(mgr.proc)
       THEN /\ Commit(EndProcess(Cur, mgr.proc))
            /\ children' = Exited(children, mgr.proc, SIGKILL)
       ELSE UNCHANGED <<active_tasks, task_logs, handles, timers, children>>
    /\ mgr' = [mgr EXCEPT !.pc = "reap"]
    /\ UNCHANGED <<now, mgr_active, running_tasks, completed, returned, quota, pd, avars>>

\* lines 1525-1531: forget the cached handle and delete the row
RemoveRow(S, id) ==
    remove_active_task(IF mgr_active[id] # 0 THEN Drop(S, mgr_active[id]) ELSE S, id)

\* lines 1501-1536: "del self.running_tasks[task_id]" raises KeyError when the
\* monitor has removed the key meanwhile; the except clause logs it and
\* remove_task returns without deleting anything
RemoveTaskFinish ==
    /\ mgr.op = "remove" /\ mgr.pc \in {"reap", "delete"}
    /\ IF mgr.pc = "reap" /\ running_tasks[mgr.id] = 0
       THEN UNCHANGED <<active_tasks, task_logs, handles, timers, mgr_active, running_tasks>>
       ELSE /\ Commit(RemoveRow(Cur, mgr.id))
            /\ mgr_active' = [mgr_active EXCEPT ![mgr.id] = 0]
            /\ running_tasks' = [running_tasks EXCEPT ![mgr.id] = 0]
    /\ mgr' = Idle
    /\ UNCHANGED <<now, children, completed, returned, quota, pd, avars>>

(***************************************************************************)
(* WorkerManager.cleanup                                                   *)
(***************************************************************************)
\* the children of running_tasks whose poll() is None
LiveListed == {p \in Pids : Alive(p) /\ \E id \in TaskIds : running_tasks[id] = p}

\* the processes of a set end together
EndProcesses(S, P) ==
    [S EXCEPT !.hs = [h \in HIds |->
                        IF S.hs[h] # NoHandle /\ S.hs[h].proc \in P
                        THEN NoHandle ELSE S.hs[h]],
              !.tq = [q \in Procs |-> IF q \in P THEN <<>> ELSE S.tq[q]]]

\* lines 284-362, called when the manager shuts down: every child of
\* running_tasks that is still running gets SIGTERM on its process group and
\* is waited for (5 s); those that outlive the wait get SIGKILL; then
\* running_tasks is cleared and the manager exits
Cleanup ==
    /\ mgr.op = "idle"
    /\ \E killed \in SUBSET LiveListed :
         children' = [p \in Pids |->
                        IF p \in LiveListed
                        THEN Exited(children, p, IF p \in killed THEN SIGKILL ELSE SIGTERM)[p]
                        ELSE children[p]]
    /\ Commit(EndProcesses(Cur, LiveListed))
    /\ running_tasks' = [id \in TaskIds |-> 0]
    /\ mgr' = [Idle EXCEPT !.op = "stopped"]
    /\ UNCHANGED <<now, mgr_active, completed, returned, quota, pd, avars>>

(***************************************************************************)
(* fastapi_app.app.delete_active_task                                      *)
(***************************************************************************)
\* lines 945-968: the task row and the log rows of the run are deleted and
\* the transaction committed
DeleteRows(S, id) ==
    [S EXCEPT !.rows[id] = NoRow, !.logs[id] = NoRow]

\* lines 903-990: after the commit, a task that is in running_tasks reaches
\* process.is_alive(), which a Popen object does not have: the handler ends
\* with an error and neither the child nor the manager's tables are touched
DeleteActiveTask(id) ==
    /\ mgr.op = "idle"
    /\ active_tasks[id] # NoRow
    /\ IF running_tasks[id] # 0
       THEN /\ Commit(DeleteRows(Cur, id))
            /\ UNCHANGED mgr_active
       ELSE /\ Commit(DeleteRows(IF mgr_active[id] # 0 THEN Drop(Cur, mgr_active[id]) ELSE Cur, id))
            /\ mgr_active' = [mgr_active EXCEPT ![id] = 0]
    /\ UNCHANGED <<now, running_tasks, children, mgr, completed, returned, quota, pd, avars>>

(***************************************************************************)
(* Time                                                                    *)
(***************************************************************************)
\* the oldest threading.Timer of a process runs _delayed_save
TimerFire(p) ==
    /\ timers[p] # <<>>
    /\ IF p = 0 THEN TRUE ELSE Alive(p)
    /\ Commit(_delayed_save([Cur EXCEPT !.tq[p] = Tail(@)], Head(timers[p])))
    /\ UNCHANGED <<now, mgr_active, running_tasks, children, mgr, completed, returned, quota, pd, avars>>

\* a second passes (int(time.time()) changes); the model lets it pass only
\* when no timer is waiting, so every save older than a second is no longer
\* recent
Tick ==
    /\ now < MaxTime
    /\ \A p \in Procs : timers[p] = <<>>
    /\ now' = now + 1
    /\ handles' = [h \in HIds |-> IF handles[h] = NoHandle THEN NoHandle
                                  ELSE [handles[h] EXCEPT !.recent = FALSE]]
    /\ UNCHANGED <<active_tasks, task_logs, timers, mgr_active, running_tasks,
                   children, mgr, completed, returned, quota, pd, avars>>

(***************************************************************************)
(* PersistentDict under a clock (SpecPD).  Time is counted in ticks;       *)
(* debounce_interval is DebounceTicks ticks.  Several threads mutate one   *)
(* handle: a mutator first changes the dict (dict.__setitem__ and the      *)
(* like, outside the lock), then runs _schedule_save under the RLock.      *)
(***************************************************************************)
DebounceTicks == 2  \* debounce_interval (0.1 s) in ticks
MaxThreads == 2     \* threads that mutate the handle
MaxTimers == 2      \* threading.Timer objects started and not yet run

Keys == {"a"}
Absent == 0
Values == {1, 2}
Threads == 1..MaxThreads
Dicts == [Keys -> Values \cup {Absent}]
EmptyDict == [k \in Keys |-> Absent]

\* durations are kept up to debounce_interval: longer ones behave alike
Later(n) == IF n < DebounceTicks THEN n + 1 ELSE DebounceTicks

\* PersistentDict.__init__ (_last_save_time = 0, _pending_save = False) on the
\* data of a row just read or written.  since_save is
\* time.time() - _last_save_time, since_mut the time since the dict last
\* changed, a timer is the time left until it runs.  failed: a save callback
\* has raised; raised: an exception of a save has left a PersistentDict
\* method and reached its caller.
PDInit(data) ==
    [mem |-> data, store |-> data, since_save |-> DebounceTicks, pending |-> FALSE,
     timers |-> <<>>, sched |-> [t \in Threads |-> FALSE],
     since_mut |-> DebounceTicks, failed |-> FALSE, raised |-> FALSE]

\* PersistentDict._save_to_db: the callback writes dict(self); an exception of
\* the callback (get_connection rolls back and re-raises) is caught, logged
\* with logger.error and not re-raised: _last_save_time stays, the caller of
\* the mutator or the Timer thread goes on
pd_save_to_db(d, ok) ==
    IF ok THEN [d EXCEPT !.store = d.mem, !.since_save = 0]
          ELSE [d EXCEPT !.failed = TRUE]

\* PersistentDict._schedule_save
pd_schedule_save(d, ok) ==
    IF d.since_save >= DebounceTicks
    THEN pd_save_to_db(d, ok)
    ELSE IF ~d.pending
         THEN [d EXCEPT !.pending = TRUE,
                        !.timers = Append(@, DebounceTicks)]
         ELSE d

\* PersistentDict._delayed_save
pd_delayed_save(d, ok) ==
    IF d.pending THEN [pd_save_to_db(d, ok) EXCEPT !.pending = FALSE] ELSE d

\* PersistentDict.force_save
pd_force_save(d, ok) ==
    [pd_save_to_db(d, ok) EXCEPT !.pending = FALSE]

\* the dict changed by thread t, which goes on to _schedule_save
Mutated(d, t, newmem) ==
    [d EXCEPT !.mem = newmem, !.sched[t] = TRUE, !.since_mut = 0]

\* PersistentDict.setdefault: "if key not in self or self[key] != default"
\* decides, after dict.setdefault has run, whether _schedule_save is called
setdefault_saves(mem, key, default) ==
    mem[key] = Absent \/ mem[key] # default

\* __setitem__(key, value) and update({key: value}): dict part
PDSetItem(t) ==
    /\ ~pd.sched[t]
    /\ \E k \in Keys, v \in Values :
         pd' = Mutated(pd, t, [pd.mem EXCEPT ![k] = v])
    /\ UNCHANGED <<kvars, avars>>

\* __delitem__(key) and pop(key): dict part (a missing key raises KeyError
\* before anything changes)
PDDelItem(t) ==
    /\ ~pd.sched[t]
    /\ \E k \in Keys :
         /\ pd.mem[k] # Absent
         /\ pd' = Mutated(pd, t, [pd.mem EXCEPT ![k] = Absent])
    /\ UNCHANGED <<kvars, avars>>

\* clear(): dict part
PDClear(t) ==
    /\ ~pd.sched[t]
    /\ pd' = Mutated(pd, t, EmptyDict)
    /\ UNCHANGED <<kvars, avars>>

\* setdefault(key, default): dict.setdefault, then the test of lines 449-451
PDSetDefault(t) ==
    /\ ~pd.sched[t]
    /\ \E k \in Keys, v \in Values :
         LET newmem == IF pd.mem[k] = Absent THEN [pd.mem EXCEPT ![k] = v] ELSE pd.mem
         IN pd' = [pd EXCEPT !.mem = newmem,
                             !.sched[t] = setdefault_saves(newmem, k, v),
                             !.since_mut = IF newmem # pd.mem THEN 0 ELSE @]
    /\ UNCHANGED <<kvars, avars>>

\* the _schedule_save call that ends a mutator
PDScheduleSave(t) ==
    /\ pd.sched[t]
    /\ \E ok \in BOOLEAN :
         pd' = [pd_schedule_save(pd, ok) EXCEPT !.sched[t] = FALSE]
    /\ UNCHANGED <<kvars, avars>>

\* force_save(); its timer, if any, is not cancelled
PDForceSave(t) ==
    /\ ~pd.sched[t]
    /\ Len(pd.timers) < MaxTimers
    /\ \E ok \in BOOLEAN : pd' = pd_force_save(pd, ok)
    /\ UNCHANGED <<kvars, avars>>

\* a threading.Timer whose interval has passed runs _delayed_save
PDTimerFire ==
    /\ pd.timers # <<>>
    /\ pd.timers[1] = 0
    /\ \E ok \in BOOLEAN :
         pd' = pd_delayed_save([pd EXCEPT !.timers = Tail(@)], ok)
    /\ UNCHANGED <<kvars, avars>>

\* one tick passes: no mutator is between its dict operation and its
\* _schedule_save, and every timer that is due has run
PDTock ==
    /\ \A t \in Threads : ~pd.sched[t]
    /\ \A i \in DOMAIN pd.timers : pd.timers[i] > 0
    /\ pd' = [pd EXCEPT !.timers = [i \in DOMAIN pd.timers |-> pd.timers[i] - 1],
                        !.since_save = Later(@),
                        !.since_mut = Later(@)]
    /\ UNCHANGED <<kvars, avars>>

(***************************************************************************)
(* AgentLogger of one run in a child process (SpecLog).  The log document  *)
(* is a PersistentDict whose save callback is save_log; the store accepts  *)
(* every write.  Messages are numbered in the order log_message is called. *)
(* Time is counted in ticks as in SpecPD.                                  *)
(***************************************************************************)
MaxMsgs == 4        \* messages logged in one run

\* AgentLogger._setup_log_document on a run without a log row:
\* create_log_persistent saves initial_log_data (progress = []) and wraps it
\* in a PersistentDict.  mem is the progress list of the dict (after the
\* process has ended, what it had appended), store the progress list of the
\* row, sched the log_message call between its two statements.  loggers
\* counts the AgentLogger objects made for the run; while a further one is
\* being constructed (loading), loaded is what its load_log returned.
LoggerInit ==
    [mem |-> <<>>, store |-> <<>>, since_save |-> DebounceTicks, pending |-> FALSE,
     timers |-> <<>>, failed |-> FALSE, sched |-> FALSE, pc |-> "running",
     loggers |-> 1, loading |-> FALSE, loaded |-> <<>>]

\* a threading.Timer that never calls _delayed_save
log_delayed_save_skipped(d) == d

\* the Timer thread of the log document runs _delayed_save
log_delayed_save(d) == pd_delayed_save(d, TRUE)

\* AgentLogger.log_message, line 49: self.log_document["progress"].append(message)
\* changes the nested list; no PersistentDict method runs
LogAppend ==
    /\ lg.pc = "running"
    /\ ~lg.sched
    /\ Len(lg.mem) < MaxMsgs
    /\ lg' = [lg EXCEPT !.mem = Append(@, Len(@) + 1), !.sched = TRUE]
    /\ UNCHANGED <<kvars, pd, llm, ex, fn, st, bt>>

\* AgentLogger.log_message, line 50: self.log_document["last_updated"] = ...
\* is PersistentDict.__setitem__, which runs _schedule_save
LogTouch ==
    /\ lg.pc = "running"
    /\ lg.sched
    /\ lg' = [pd_schedule_save(lg, TRUE) EXCEPT !.sched = FALSE]
    /\ UNCHANGED <<kvars, pd, llm, ex, fn, st, bt>>

\* a threading.Timer whose interval has passed runs _delayed_save; the Timer
\* threads are not daemon threads and also run while the interpreter exits
LogTimerFire ==
    /\ lg.pc \in {"running", "exiting"}
    /\ lg.timers # <<>>
    /\ lg.timers[1] = 0
    /\ lg' = log_delayed_save([lg EXCEPT !.timers = Tail(@)])
    /\ UNCHANGED <<kvars, pd, llm, ex, fn, st, bt>>

\* one tick passes: log_message is not between its two statements and every
\* timer that is due has run
LogTock ==
    /\ lg.pc \in {"running", "exiting"}
    /\ ~lg.sched
    /\ \A i \in DOMAIN lg.timers : lg.timers[i] > 0
    /\ lg.timers # <<>> \/ lg.since_save < DebounceTicks
    /\ lg' = [lg EXCEPT !.timers = [i \in DOMAIN lg.timers |-> lg.timers[i] - 1],
                        !.since_save = Later(@)]
    /\ UNCHANGED <<kvars, pd, llm, ex, fn, st, bt>>

\* worker.py 97: asyncio.run(run_agent_task(task_id)) returns, the main thread
\* is done and the interpreter waits for the Timer threads
LogReturn ==
    /\ lg.pc = "running"
    /\ ~lg.sched
    /\ lg' = [lg EXCEPT !.pc = "exiting"]
    /\ UNCHANGED <<kvars, pd, llm, ex, fn, st, bt>>

\* the interpreter exits with status 0 once no Timer thread is left
LogExit ==
    /\ lg.pc = "exiting"
    /\ lg.timers = <<>>
    /\ lg' = [lg EXCEPT !.pc = "exited"]
    /\ UNCHANGED <<kvars, pd, llm, ex, fn, st, bt>>

\* SIGKILL (remove_task 1492, cleanup 319): the process ends at once with its
\* timers
LogKill ==
    /\ lg.pc \in {"running", "exiting"}
    /\ lg' = [lg EXCEPT !.pc = "killed", !.timers = <<>>, !.sched = FALSE]
    /\ UNCHANGED <<kvars, pd, llm, ex, fn, st, bt>>

(***************************************************************************)
(* The loggers of a delegated engineer run (SpecLoggers).  The graph of    *)
(* the engineer keeps the AgentLogger it was created with (the logger      *)
(* argument of create_agent_graph is bound in the node wrappers); every    *)
(* implement_task(run_id = ...) constructs a further AgentLogger for the   *)
(* same (run_id, "agent_logger"), which nothing writes to afterwards.  The *)
(* constructor runs in the main thread, the Timer of the graph's logger in *)
(* a thread of its own.                                                    *)
(***************************************************************************)
MaxLoggers == 3     \* AgentLogger objects constructed for one run

\* the main thread is inside log_message, inside the AgentLogger constructor,
\* or between two calls: a node of the graph logs a message
LoggerAppend ==
    /\ ~lg.loading
    /\ LogAppend

\* a tick is long compared with the constructor: none passes inside it
LoggerTock ==
    /\ ~lg.loading
    /\ LogTock

\* swe.py 216, thought_logger.py 61: AgentLogger(run_id) starts with
\* existing_log = load_log(run_id, "agent_logger")
LoggerLoad ==
    /\ lg.pc = "running"
    /\ ~lg.sched
    /\ ~lg.loading
    /\ lg.loggers < MaxLoggers
    /\ lg' = [lg EXCEPT !.loading = TRUE, !.loaded = lg.store]
    /\ UNCHANGED <<kvars, pd, llm, ex, fn, st, bt>>

\* thought_logger.py 63-67 and task_storage.py 291-296: create_log_persistent
\* saves existing_log (INSERT OR REPLACE) and wraps a copy of it in a new
\* PersistentDict
LoggerSave ==
    /\ lg.loading
    /\ lg' = [lg EXCEPT !.store = lg.loaded, !.loading = FALSE, !.loaded = <<>>,
                        !.loggers = @ + 1]
    /\ UNCHANGED <<kvars, pd, llm, ex, fn, st, bt>>

(***************************************************************************)
(* langgraph_utils.query_llm_get_new_state: the LLM turns of one run       *)
(* (SpecLLM).  An attempt is one llm_client.ainvoke call.                  *)
(***************************************************************************)
MaxTurns == 2       \* agent turns of the run

max_attempts == 20
retryable_status_codes == {429, 503, 502, 500, 529}
\* 0 stands for an error without a status code (status_code None or 0)
StatusCodes == retryable_status_codes \cup {200, 400, 0}

\* what one ainvoke call meets: the provider's HTTP response (status 0: the
\* request failed with an aiohttp.ClientError without a status), or the next
\* entry of the fake response queue (status 0: the queue is empty); text
\* tells whether the error message holds one of the retryable_indicators
Outcomes ==
    {o \in [via : {"http", "fake"}, status : StatusCodes, text : BOOLEAN] :
        /\ o.text => (o.via = "http" /\ o.status = 0)}

\* ChatLLM._make_api_request: a fake response is returned with its status
\* code whatever it is; an HTTP response is returned only with status 200,
\* every other one raises an Exception carrying the status code
Raises(o) ==
    IF o.via = "fake" THEN o.status = 0 ELSE o.status # 200

\* lines 314-324: is_retryable, from the status code of the exception or,
\* without one, from the text of the error
is_retryable(o) ==
    IF o.status # 0 THEN o.status \in retryable_status_codes ELSE o.text

\* line 307 with the test left out: the last attempt is never recognised
Exhausted_never(attempt) == FALSE

\* line 307: "if attempt == max_attempts - 1"
Exhausted(attempt) == attempt = max_attempts - 1

Kind(o) ==
    IF ~Raises(o) THEN "ok" ELSE IF is_retryable(o) THEN "transient" ELSE "other"

\* attempt: the attempts made in this turn; completions: assistant messages
\* produced in this turn; transient, nonretry: failed attempts of this turn by
\* kind; failed: how often the run was set to Failed; eked: an earlier turn
\* succeeded on its last attempt
TurnInit ==
    [attempt |-> 0, pc |-> "calling", completions |-> 0, transient |-> 0,
     nonretry |-> 0, fatal |-> FALSE, failed |-> 0, turn |-> 1, eked |-> FALSE,
     last |-> [via |-> "http", status |-> 200, text |-> FALSE], lastkind |-> "none"]

\* lines 221-332: one pass of "for attempt in range(max_attempts)".  A
\* returned response becomes the assistant message and ends the turn; an
\* exception ends the call on the last attempt (fatal error) and, when it is
\* not retryable, on every attempt but the first.  An exception that leaves
\* the call leaves the graph and is caught by the wrapper (wrapper.py
\* 251-260), which sets the status Failed.
LLMAttempt ==
    /\ llm.pc = "calling"
    /\ llm.attempt < max_attempts
    /\ \E o \in Outcomes :
         LET a == llm.attempt
             d == [llm EXCEPT !.attempt = a + 1, !.last = o, !.lastkind = Kind(o)]
         IN llm' =
              IF ~Raises(o)
              THEN [d EXCEPT !.pc = "returned", !.completions = @ + 1]
              ELSE LET e == [d EXCEPT !.transient = IF is_retryable(o) THEN @ + 1 ELSE @,
                                      !.nonretry = IF is_retryable(o) THEN @ ELSE @ + 1]
                   IN IF Exhausted(a)
                      THEN [e EXCEPT !.pc = "raised", !.fatal = TRUE, !.failed = @ + 1]
                      ELSE IF is_retryable(o) \/ a = 0
                           THEN e
                           ELSE [e EXCEPT !.pc = "raised", !.failed = @ + 1]
    /\ UNCHANGED <<kvars, pd, lg, ex, fn, st, bt>>

\* agent_node 353-364: after the tool step the next turn calls
\* query_llm_get_new_state again
LLMNextTurn ==
    /\ llm.pc = "returned"
    /\ llm.turn < MaxTurns
    /\ llm' = [TurnInit EXCEPT !.turn = llm.turn + 1,
                               !.eked = llm.eked \/ llm.attempt = max_attempts]
    /\ UNCHANGED <<kvars, pd, lg, ex, fn, st, bt>>

(***************************************************************************)
(* langgraph_utils.should_continue on the AgentState a tool step leaves    *)
(* (SpecRouter).  The state's messages are drawn from the histories of     *)
(* bounded length: system, user input, then assistant messages, each       *)
(* followed or not by the user message that holds its tool results.        *)
(***************************************************************************)
MaxHistory == 7     \* messages after the system message and the user input

\* messages[-5:]
RecentWindow == 5

\* the content string of a tool_result block: whether json.loads gives a
\* dict, and whether the text has "end_task": true at its top level
Contents == [json_object : BOOLEAN, end_task : BOOLEAN]

\* reformat_messages 104-107 and create_assistant_message
SystemMsg == [role |-> "system", is_list |-> FALSE, blocks |-> <<>>]
UserInputMsg == [role |-> "user", is_list |-> FALSE, blocks |-> <<>>]
AssistantMsg == [role |-> "assistant", is_list |-> TRUE,
                 blocks |-> <<[type |-> "tool_use", content |-> [json_object |-> TRUE, end_task |-> FALSE]]>>]

\* tool_execution_node 392-419: one user message with a tool_result block per
\* tool call
ResultMsg(contents) ==
    [role |-> "user", is_list |-> TRUE,
     blocks |-> [i \in DOMAIN contents |-> [type |-> "tool_result", content |-> contents[i]]]]

ResultMsgs ==
    {ResultMsg(<<c>>) : c \in Contents}
    \cup {ResultMsg(<<[json_object |-> TRUE, end_task |-> FALSE], [json_object |-> TRUE, end_task |-> TRUE]>>)}

Histories ==
    {<<SystemMsg, UserInputMsg>> \o t :
        t \in {u \in UNION {[1..n -> {AssistantMsg} \cup ResultMsgs] : n \in 1..MaxHistory} :
                 /\ u[1] = AssistantMsg
                 /\ \A i \in 2..Len(u) : u[i] \in ResultMsgs => u[i - 1] = AssistantMsg}}

\* the slice with the window left out: all messages are looked at
Recent_all(messages) == messages

\* messages[-5:]
Recent(messages) ==
    IF Len(messages) <= RecentWindow THEN messages
    ELSE SubSeq(messages, Len(messages) - RecentWindow + 1, Len(messages))

\* lines 503-510: the loop over the content blocks of one message
RECURSIVE BlocksEndTask(_)
BlocksEndTask(blocks) ==
    IF blocks = <<>> THEN FALSE
    ELSE IF /\ Head(blocks).type = "tool_result"
            /\ Head(blocks).content.json_object
            /\ Head(blocks).content.end_task
         THEN TRUE
         ELSE BlocksEndTask(Tail(blocks))

\* lines 501-511: "for message in reversed(messages[-5:])"
RECURSIVE ScanReversed(_)
ScanReversed(msgs) ==
    IF msgs = <<>> THEN FALSE
    ELSE LET message == msgs[Len(msgs)]
         IN IF message.role = "user" /\ message.is_list /\ BlocksEndTask(message.blocks)
            THEN TRUE
            ELSE ScanReversed(SubSeq(msgs, 1, Len(msgs) - 1))

_check_for_task_completion(messages) ==
    IF messages = <<>> THEN FALSE ELSE ScanReversed(Recent(messages))

\* should_continue
should_continue(tool_calls, messages) ==
    IF tool_calls # <<>> THEN "tool_executor"
    ELSE IF _check_for_task_completion(messages) THEN "END"
    ELSE "agent"

\* the state returned by tool_execution_node (tool_calls = []) and the edge
\* chosen for it, "none" before should_continue has run
RoutedInit == [messages |-> <<SystemMsg, UserInputMsg, AssistantMsg>>, route |-> "none"]

\* the conditional edge after "tool_executor"
Route ==
    /\ fn.route = "none"
    /\ fn' = [fn EXCEPT !.route = should_continue(<<>>, fn.messages)]
    /\ UNCHANGED <<kvars, pd, lg, llm, ex, st, bt>>


(***************************************************************************)
(* The agent graph of one run (SpecLoop): agent_node, tool_execution_node  *)
(* and should_continue.  Every LLM call returns a response (its failures   *)
(* are the subject of SpecLLM); a response holds at most one tool call.    *)
(* The graph runs under the config of create_run_config: LangGraph counts  *)
(* one step per node execution and raises GraphRecursionError when a node  *)
(* is due after recursion_limit steps.                                     *)
(***************************************************************************)
MaxCycles == 8      \* (assistant, user) cycles of the history looked at in C17
MaxSilent == 1      \* responses without a tool call in a run that has others
MaxErrors == 1      \* tool calls of a run that end in an error output
MaxSteps == 52      \* node executions explored in one run

\* create_run_config: recursion_limit: int = 50
recursion_limit == 50

\* a graph without a step limit
out_of_steps_never(steps) == FALSE

\* the graph has used up the steps its config allows
out_of_steps(steps) == steps >= recursion_limit

\* create_agent_graph: max_call_stack: int = 3
max_call_stack == 3

ToolUseId == "toolu_1"

\* the tool call of a response.  A client tool's handler returns a dict,
\* returns the output of generate_output (end_task = True), raises, is the
\* batch tool one of whose child calls raises, or is not in tools_dict.  For
\* a server-executed tool the response may hold a web_search_tool_result
\* block, whose "tool_use_id" is the id of the call and which has an "id"
\* key or not ("" is block.get("id", "")).
ToolCalls ==
    {[server_executed |-> FALSE, handler |-> b, id |-> ToolUseId] :
        b \in {"returns", "generate_output", "raises", "batch_child_raises", "not_found"}}
    \cup {[server_executed |-> TRUE, handler |-> "server", id |-> ToolUseId]}

ResultBlocks == [tool_use_id : {ToolUseId}, id : {"", ToolUseId}]

\* AnthropicResponse._process_content, line 215:
\* self.tool_results[block.get("id", "")] = tool_result
server_tool_results(blocks) == {b.id : b \in blocks}

\* _handle_server_tool: (tool_output, is_error)
_handle_server_tool(tool_call, results) ==
    IF tool_call.id \notin results
    THEN [output |-> "not_found_message", is_error |-> TRUE]
    ELSE [output |-> "server_result", is_error |-> FALSE]

\* _handle_client_tool: (tool_output, is_error); the batch tool catches the
\* exception of its child and returns {"success": False, "error_messages": ...}
_handle_client_tool(tool_call) ==
    CASE tool_call.handler = "not_found" -> [output |-> "not_found_message", is_error |-> TRUE]
      [] tool_call.handler = "raises" -> [output |-> "error_message", is_error |-> TRUE]
      [] tool_call.handler = "batch_child_raises" -> [output |-> "error_dict", is_error |-> FALSE]
      [] tool_call.handler = "generate_output" -> [output |-> "end_dict", is_error |-> FALSE]
      [] OTHER -> [output |-> "dict", is_error |-> FALSE]

\* tool_execution_node 393: json.dumps of a dict output, str of any other
output_str(output) ==
    [json_object |-> output \in {"dict", "end_dict", "error_dict", "server_result"},
     end_task |-> output = "end_dict"]

\* truncate_conversation_history 178-181
TruncationNotice == [role |-> "user", is_list |-> FALSE, blocks |-> <<>>, notice |-> TRUE]

\* lines 166-171 without the branch for an incomplete cycle
messages_to_keep_even(n) == max_call_stack * 2

\* lines 166-171: messages_to_keep for n conversation messages
messages_to_keep(n) ==
    IF n % 2 # 0 THEN max_call_stack * 2 + 1 ELSE max_call_stack * 2

truncate_conversation_history(full_messages) ==
    IF Len(full_messages) <= 2 THEN full_messages
    ELSE LET n == Len(full_messages) - 2
         IN IF ~((n \div 2) > max_call_stack) THEN full_messages
            ELSE LET keep == IF messages_to_keep(n) < n THEN messages_to_keep(n) ELSE n
                 IN <<full_messages[1], full_messages[2], TruncationNotice>>
                    \o SubSeq(full_messages, Len(full_messages) - keep + 1, Len(full_messages))

\* AgentState(user_input=...) as the agents create it, with the response of
\* the last LLM call that matters to the tool step (result_blocks), the
\* messages sent to the LLM by the last agent_node (llm_input), the call
\* executed by the last tool step (done) and the tool_outputs entry made for it
RunInit ==
    [pc |-> "agent", messages |-> <<>>, tool_calls |-> <<>>, result_blocks |-> {},
     server_tool_results |-> {}, llm_input |-> <<>>, done |-> <<>>, tool_outputs |-> <<>>,
     silent |-> 0, errors |-> 0, steps |-> 0]

\* _execute_single_tool: (tool_output, is_error) of one call
ToolResult(tool_call, results) ==
    IF tool_call.server_executed THEN _handle_server_tool(tool_call, results)
                                 ELSE _handle_client_tool(tool_call)

\* agent_node and query_llm_get_new_state 242-290: reformat_messages,
\* truncate_conversation_history, the LLM response, the assistant message
\* appended to the full history.  The responses drawn: at most MaxSilent of
\* a run hold no tool call, unless none of the run does; at most MaxErrors
\* hold a call that ends in an error output.
LoopAgent ==
    /\ ex.pc = "agent"
    /\ ex.steps < MaxSteps
    /\ ~out_of_steps(ex.steps)
    /\ LET full_messages == IF ex.messages = <<>> THEN <<SystemMsg, UserInputMsg>>
                                                  ELSE ex.messages
       IN \E calls \in {<<>>} \cup {<<c>> : c \in ToolCalls},
             blocks \in {{}} \cup {{b} : b \in ResultBlocks} :
            /\ calls = <<>> => (ex.silent < MaxSilent \/ 2 * ex.silent = ex.steps)
            /\ blocks # {} => (calls # <<>> /\ calls[1].server_executed)
            /\ (calls # <<>> /\ ToolResult(calls[1], server_tool_results(blocks)).is_error)
               => ex.errors < MaxErrors
            /\ ex' = [ex EXCEPT
                        !.pc = "tool_executor",
                        !.llm_input = truncate_conversation_history(full_messages),
                        !.messages = Append(full_messages,
                                            IF calls = <<>> THEN [AssistantMsg EXCEPT !.blocks = <<>>]
                                                            ELSE AssistantMsg),
                        !.tool_calls = calls,
                        !.result_blocks = blocks,
                        !.server_tool_results = server_tool_results(blocks),
                        !.done = <<>>,
                        !.silent = IF calls = <<>> THEN @ + 1 ELSE @,
                        !.steps = @ + 1]
    /\ UNCHANGED <<kvars, pd, lg, llm, fn, st, bt>>

\* tool_execution_node and _execute_single_tool: without tool calls the state
\* is returned as it is; else every call is executed and one user message
\* with the tool results is appended
LoopTools ==
    /\ ex.pc = "tool_executor"
    /\ ~out_of_steps(ex.steps)
    /\ IF ex.tool_calls = <<>>
       THEN ex' = [ex EXCEPT !.pc = "route", !.steps = @ + 1]
       ELSE LET tool_call == ex.tool_calls[1]
                r == ToolResult(tool_call, ex.server_tool_results)
            IN ex' = [ex EXCEPT
                        !.pc = "route",
                        !.messages = Append(@, ResultMsg(<<output_str(r.output)>>)),
                        !.tool_calls = <<>>,
                        !.done = <<tool_call>>,
                        !.tool_outputs = <<r>>,
                        !.errors = IF r.is_error THEN @ + 1 ELSE @,
                        !.steps = @ + 1]
    /\ UNCHANGED <<kvars, pd, lg, llm, fn, st, bt>>

\* the conditional edge after "tool_executor"
LoopRoute ==
    /\ ex.pc = "route"
    /\ ex' = [ex EXCEPT !.pc = should_continue(ex.tool_calls, ex.messages)]
    /\ UNCHANGED <<kvars, pd, lg, llm, fn, st, bt>>

\* swe.py 226-227, pm.py 275-276: graph.ainvoke(initial_state, config): a
\* node is due and the steps of the config are used up; GraphRecursionError
\* leaves ainvoke and is caught by the wrapper (wrapper.py 251-260)
LoopLimit ==
    /\ ex.pc \in {"agent", "tool_executor"}
    /\ out_of_steps(ex.steps)
    /\ ex' = [ex EXCEPT !.pc = "GraphRecursionError"]
    /\ UNCHANGED <<kvars, pd, lg, llm, fn, st, bt>>

(***************************************************************************)
(* TaskStorage: the run_ids column of one task row and the subtask_ids     *)
(* rows of one Fullstack Planner run (SpecStore).  A behaviour either      *)
(* calls pre_generate_subtask_ids directly, or follows one Planner run     *)
(* from the end of its agent to the subtask creation endpoint.             *)
(***************************************************************************)
MaxClock == 1       \* int(time.time()) runs over 0..MaxClock
MaxSubtasks == 2    \* subtasks in the output of a Planner run
MaxAdds == 3        \* add_run_id_to_task calls in one behaviour

RunIds == {"run_a", "run_b"}
SubtaskIndices == 0..(MaxSubtasks - 1)

\* f"pm_subtask_{timestamp}_{idx}"
subtask_id(timestamp, idx) == [timestamp |-> timestamp, idx |-> idx]

\* has_task, run_ids: the task row exists, its run_ids column; adds: the run
\* ids passed to add_run_id_to_task since the row exists; subtask_ids: the table
\* rows of the run by subtask_index; generated_ids: what the last call of
\* pre_generate_subtask_ids returned, first_ids: what the first call with a
\* given count returned; status, subtasks: the stored agent_status of the
\* Planner run and len(list_of_subtasks) of its output; debug_messages: the
\* rows of the debug_messages table, shown: what the last call of
\* get_debug_messages returned
StoreInit ==
    [clock |-> 0, has_task |-> FALSE, run_ids |-> <<>>, adds |-> <<>>,
     subtask_ids |-> [i \in SubtaskIndices |-> NoRow],
     generated_ids |-> <<>>, first_ids |-> [n \in 1..MaxSubtasks |-> <<>>],
     status |-> "none", subtasks |-> 0,
     debug_messages |-> <<>>, shown |-> <<>>]

\* TaskStorage.add_run_id_to_task: "if row:" appends to the run_ids column,
\* else only a warning is logged
add_run_id_to_task(row, run_ids, run_id) ==
    IF row THEN Append(run_ids, run_id) ELSE run_ids

\* TaskStorage.pre_generate_subtask_ids: the rows after the INSERT OR REPLACE
\* statements and the returned list
pre_generate_subtask_ids(rows, timestamp, num_subtasks) ==
    [rows |-> [i \in SubtaskIndices |->
                 IF i < num_subtasks THEN subtask_id(timestamp, i) ELSE rows[i]],
     generated_ids |-> [i \in 1..num_subtasks |-> subtask_id(timestamp, i - 1)]]

\* TaskStorage.add_active_task: the row is inserted or replaced with
\* run_ids = '[]'
StAddTask ==
    /\ ~st.has_task
    /\ st' = [st EXCEPT !.has_task = TRUE, !.run_ids = <<>>]
    /\ UNCHANGED <<kvars, pd, lg, llm, ex, fn, bt>>

\* a call of add_run_id_to_task(task_id, run_id)
StAddRunId(run_id) ==
    /\ Len(st.adds) < MaxAdds
    /\ st' = [st EXCEPT !.run_ids = add_run_id_to_task(st.has_task, @, run_id),
                        !.adds = IF st.has_task THEN Append(@, run_id) ELSE @]
    /\ UNCHANGED <<kvars, pd, lg, llm, ex, fn, bt>>

\* a call of pre_generate_subtask_ids(fullstack_run_id, n)
StPreGenerate(n) ==
    /\ st.status = "none"
    /\ LET r == pre_generate_subtask_ids(st.subtask_ids, st.clock, n)
       IN st' = [st EXCEPT !.subtask_ids = r.rows,
                           !.generated_ids = r.generated_ids,
                           !.first_ids[n] = IF @ = <<>> THEN r.generated_ids ELSE @]
    /\ UNCHANGED <<kvars, pd, lg, llm, ex, fn, bt>>

\* wrapper.py 216-249 for a Fullstack Planner: Completed is stored, then the
\* ids of a non-empty list_of_subtasks are generated; an exception of
\* pre_generate_subtask_ids (the transaction is rolled back) is logged and
\* the run stays Completed
StPlannerFinish(n) ==
    /\ st.status = "Running"
    /\ \E ok \in BOOLEAN :
         LET r == pre_generate_subtask_ids(st.subtask_ids, st.clock, n)
         IN st' = [st EXCEPT !.status = "Completed", !.subtasks = n,
                             !.subtask_ids = IF n > 0 /\ ok THEN r.rows ELSE @,
                             !.generated_ids = IF n > 0 /\ ok THEN r.generated_ids ELSE @]
    /\ UNCHANGED <<kvars, pd, lg, llm, ex, fn, bt>>

\* app.py 653-689: the subtask creation endpoint on the output of the
\* Completed run: ids are generated only if the run has subtasks and no
\* subtask_ids row
StCreateSubtasks ==
    /\ st.status = "Completed"
    /\ st.subtasks > 0
    /\ \A i \in SubtaskIndices : st.subtask_ids[i] = NoRow
    /\ LET r == pre_generate_subtask_ids(st.subtask_ids, st.clock, st.subtasks)
       IN st' = [st EXCEPT !.subtask_ids = r.rows, !.generated_ids = r.generated_ids]
    /\ UNCHANGED <<kvars, pd, lg, llm, ex, fn, bt>>

\* a second passes
StTick ==
    /\ st.clock < MaxClock
    /\ st' = [st EXCEPT !.clock = @ + 1]
    /\ UNCHANGED <<kvars, pd, lg, llm, ex, fn, bt>>

(***************************************************************************)
(* TaskStorage: the debug_messages table (SpecDebug).  The manager adds    *)
(* messages; the user interface reads the recent ones.                     *)
(***************************************************************************)
MaxDebug == 12       \* add_debug_message calls in one behaviour
debug_limit == 10    \* get_debug_messages(self, limit: int = 10)

DebugTexts == {"Creating task", "Added task"}

\* INSERT INTO debug_messages (message) VALUES (?): message_id is
\* AUTOINCREMENT, and no statement deletes a row of the table
add_debug_message(rows, message) ==
    Append(rows, [message_id |-> Len(rows) + 1, message |-> message])

\* SELECT message FROM debug_messages ORDER BY message_id DESC LIMIT ?,
\* returned in chronological order
get_debug_messages(rows, limit) ==
    LET n == IF Len(rows) < limit THEN Len(rows) ELSE limit
    IN  [i \in 1..n |-> rows[Len(rows) - n + i].message]

\* WorkerManager.add_debug_message -> TaskStorage.add_debug_message
DbgAdd(message) ==
    /\ Len(st.debug_messages) < MaxDebug
    /\ st' = [st EXCEPT !.debug_messages = add_debug_message(@, message)]
    /\ UNCHANGED <<kvars, pd, lg, llm, ex, fn, bt>>

\* TaskStorage.get_debug_messages()
DbgGet ==
    /\ st' = [st EXCEPT !.shown = get_debug_messages(st.debug_messages, debug_limit)]
    /\ UNCHANGED <<kvars, pd, lg, llm, ex, fn, bt>>

(***************************************************************************)
(* toolbox.get_batch_tool_call_tool: one invocation of batch_tool          *)
(* (SpecBatch).  A child call names a tool whose function returns a        *)
(* result, a tool whose function raises, or a name that is not in          *)
(* tool_name_2_function.                                                   *)
(***************************************************************************)
MaxChildren == 4    \* child calls in one batch

ChildCalls == {"returns", "raises", "unknown_tool"}
Batches == UNION {[1..n -> ChildCalls] : n \in 1..MaxChildren}

\* the for loop of batch_tool inside its try block: results so far, the
\* number of tool functions called so far; an exception of a child (or the
\* KeyError of an unknown name) leaves the loop for the except clause, which
\* returns the error dict
RECURSIVE batch_tool_loop(_, _, _)
batch_tool_loop(tool_calls, results, invoked) ==
    IF tool_calls = <<>>
    THEN [success |-> TRUE, results |-> results, invoked |-> invoked]
    ELSE IF Head(tool_calls) = "unknown_tool"
         THEN [success |-> FALSE, results |-> <<>>, invoked |-> invoked]
         ELSE IF Head(tool_calls) = "raises"
              THEN [success |-> FALSE, results |-> <<>>, invoked |-> invoked + 1]
              ELSE batch_tool_loop(Tail(tool_calls),
                                   Append(results, [tool_name |-> Head(tool_calls),
                                                    result |-> "result"]),
                                   invoked + 1)

batch_tool(tool_calls) == batch_tool_loop(tool_calls, <<>>, 0)

BatchInit == [pc |-> "called", tool_calls |-> <<"returns">>,
              out |-> [success |-> TRUE, results |-> <<>>, invoked |-> 0]]

\* batch_tool(params) runs and returns
BatchCall ==
    /\ bt.pc = "called"
    /\ bt' = [bt EXCEPT !.pc = "returned", !.out = batch_tool(bt.tool_calls)]
    /\ UNCHANGED <<kvars, pd, lg, llm, ex, fn, st>>

(***************************************************************************)
(* The specifications of the handle and of the agent side                  *)
(***************************************************************************)
InitPD ==
    /\ KInit
    /\ quota = [SWE |-> 0, PM |-> 0]
    /\ \E data \in Dicts : pd = PDInit(data)
    /\ lg = LoggerInit /\ llm = TurnInit /\ ex = RunInit /\ fn = RoutedInit
    /\ st = StoreInit
    /\ bt = BatchInit

NextPD ==
    \/ \E t \in Threads : PDSetItem(t)
    \/ \E t \in Threads : PDDelItem(t)
    \/ \E t \in Threads : PDClear(t)
    \/ \E t \in Threads : PDSetDefault(t)
    \/ \E t \in Threads : PDScheduleSave(t)
    \/ \E t \in Threads : PDForceSave(t)
    \/ PDTimerFire
    \/ PDTock

SpecPD == InitPD /\ [][NextPD]_vars

\* the manager is idle and no task exists
KernelOff ==
    /\ KInit
    /\ quota = [SWE |-> 0, PM |-> 0]
    /\ pd = PDInit(EmptyDict)

InitLog ==
    /\ KernelOff
    /\ lg = LoggerInit
    /\ llm = TurnInit
    /\ ex = RunInit
    /\ st = StoreInit
    /\ bt = BatchInit
    /\ fn = RoutedInit

NextLog ==
    \/ LogAppend
    \/ LogTouch
    \/ LogTimerFire
    \/ LogTock
    \/ LogReturn
    \/ LogExit
    \/ LogKill

SpecLog == InitLog /\ [][NextLog]_vars

InitLoggers == InitLog

NextLoggers ==
    \/ LoggerAppend
    \/ LogTouch
    \/ LogTimerFire
    \/ LoggerTock
    \/ LoggerLoad
    \/ LoggerSave

SpecLoggers == InitLoggers /\ [][NextLoggers]_vars

InitLLM ==
    /\ KernelOff
    /\ lg = LoggerInit
    /\ llm = TurnInit
    /\ ex = RunInit
    /\ st = StoreInit
    /\ bt = BatchInit
    /\ fn = RoutedInit

NextLLM ==
    \/ LLMAttempt
    \/ LLMNextTurn

SpecLLM == InitLLM /\ [][NextLLM]_vars

InitRouter ==
    /\ KernelOff
    /\ lg = LoggerInit
    /\ llm = TurnInit
    /\ ex = RunInit
    /\ st = StoreInit
    /\ bt = BatchInit
    /\ \E h \in Histories : fn = [messages |-> h, route |-> "none"]

NextRouter == Route

SpecRouter == InitRouter /\ [][NextRouter]_vars

InitLoop ==
    /\ KernelOff
    /\ lg = LoggerInit
    /\ llm = TurnInit
    /\ ex = RunInit
    /\ st = StoreInit
    /\ bt = BatchInit
    /\ fn = RoutedInit

NextLoop ==
    \/ LoopAgent
    \/ LoopTools
    \/ LoopRoute
    \/ LoopLimit

SpecLoop == InitLoop /\ [][NextLoop]_vars

\* the event loop of the worker runs the graph until ainvoke returns or raises
SpecLoopFair == SpecLoop /\ WF_vars(NextLoop)

InitStore ==
    /\ KernelOff
    /\ lg = LoggerInit
    /\ llm = TurnInit
    /\ ex = RunInit
    /\ fn = RoutedInit
    /\ \E s \in {"none", "Running"} : st = [StoreInit EXCEPT !.status = s]
    /\ bt = BatchInit

NextStore ==
    \/ StAddTask
    \/ \E r \in RunIds : StAddRunId(r)
    \/ \E n \in 1..MaxSubtasks : StPreGenerate(n)
    \/ \E n \in 0..MaxSubtasks : StPlannerFinish(n)
    \/ StCreateSubtasks
    \/ StTick

SpecStore == InitStore /\ [][NextStore]_vars

InitDebug ==
    /\ KernelOff
    /\ lg = LoggerInit
    /\ llm = TurnInit
    /\ ex = RunInit
    /\ fn = RoutedInit
    /\ st = StoreInit
    /\ bt = BatchInit

NextDebug ==
    \/ \E message \in DebugTexts : DbgAdd(message)
    \/ DbgGet

SpecDebug == InitDebug /\ [][NextDebug]_vars

InitBatch ==
    /\ KernelOff
    /\ lg = LoggerInit
    /\ llm = TurnInit
    /\ ex = RunInit
    /\ fn = RoutedInit
    /\ st = StoreInit
    /\ \E b \in Batches : bt = [BatchInit EXCEPT !.tool_calls = b]

NextBatch == BatchCall

SpecBatch == InitBatch /\ [][NextBatch]_vars

(***************************************************************************)
(* Kernel: next-state relation                                             *)
(***************************************************************************)
\* a behaviour creates engineer tasks only, or manager tasks only
Init ==
    /\ KInit
    /\ quota \in {[SWE |-> MaxSWE, PM |-> 0], [SWE |-> 0, PM |-> MaxPM]}
    /\ pd = PDInit(EmptyDict)
    /\ lg = LoggerInit /\ llm = TurnInit /\ ex = RunInit /\ fn = RoutedInit
    /\ st = StoreInit
    /\ bt = BatchInit

Next ==
    \/ \E type \in AgentTypes : CreateTaskBegin(type)
    \/ CreateTaskSpawn
    \/ \E p \in Pids : WorkerStart(p)
    \/ \E p \in Pids : AgentSetup(p)
    \/ \E p \in Pids : AgentRun(p)
    \/ \E p \in Pids : DelegateBegin(p)
    \/ \E p \in Pids : DelegateEnd(p)
    \/ \E p \in Pids : ChildExit(p)
    \/ \E p \in Pids : ChildCrash(p)
    \/ \E id \in TaskIds : MonitorPoll(id)
    \/ MonitorReap
    \/ \E id \in TaskIds : RemoveTaskBegin(id)
    \/ RemoveTaskKill
    \/ RemoveTaskFinish
    \/ \E id \in TaskIds : DeleteActiveTask(id)
    \/ Cleanup
    \/ \E p \in Procs : TimerFire(p)
    \/ Tick

Spec == Init /\ [][Next]_vars

(***************************************************************************)
(* Properties                                                              *)
(***************************************************************************)
Range(seq) == {seq[i] : i \in DOMAIN seq}

\* the position of a status in the order Queued, Running, {Completed, Failed}
Rank(status) ==
    CASE status = "Queued" -> 0
      [] status = "Running" -> 1
      [] OTHER -> 2

\* a run id has been handed out twice
Reused ==
    \/ \E i, j \in DOMAIN returned : i # j /\ returned[i] = returned[j]
    \/ mgr.op = "create" /\ mgr.id \in Range(returned)

\* the handle has been quiet for debounce_interval: no mutator is running,
\* the dict last changed at least debounce_interval ago, every timer that is
\* due has run
Quiescent ==
    /\ \A t \in Threads : ~pd.sched[t]
    /\ pd.since_mut >= DebounceTicks
    /\ \A i \in DOMAIN pd.timers : pd.timers[i] > 0

\* C1: for any sequence of mutations by one or several threads, once the
\* mutations have stopped and debounce_interval has passed (and no save
\* callback raised), the stored JSON equals the in-memory dict.
C1_QuiescentStoreEqualsDict ==
    (Quiescent /\ ~pd.failed) => pd.store = pd.mem

\* C2: once the child of a task has exited and the monitor has observed the
\* exit (and the manager's pending saves have run), the stored status of the
\* task is not Running.
C2_NoRunningAfterObservedExit ==
    \A i \in DOMAIN completed :
        LET id == completed[i]
            p  == running_tasks[id]
        IN (/\ p # 0
            /\ children[p].pc = "dead"
            /\ active_tasks[id] # NoRow
            /\ timers[0] = <<>>) => active_tasks[id].agent_status # "Running"

\* C3: when the monitor observes the exit of a child whose stored payload
\* shows Running, the stored status becomes Completed if the exit status is 0
\* and Failed otherwise.
C3_MonitorReconciles ==
    [][Len(completed') > Len(completed) =>
         LET id == completed'[Len(completed')]
         IN (active_tasks[id] # NoRow /\ active_tasks[id].agent_status = "Running")
            => /\ active_tasks'[id] # NoRow
               /\ active_tasks'[id].agent_status =
                     IF children[running_tasks[id]].rc = 0 THEN "Completed" ELSE "Failed"]_vars

\* C4: as long as no run id is handed out twice, the stored status of a row
\* never moves backward in the order Queued, Running, {Completed, Failed},
\* except that it may be reset to Failed.
C4_StatusNeverBackward ==
    [][\A id \in TaskIds :
         (active_tasks[id] # NoRow /\ active_tasks'[id] # NoRow /\ ~Reused')
         => \/ Rank(active_tasks'[id].agent_status) >= Rank(active_tasks[id].agent_status)
            \/ active_tasks'[id].agent_status = "Failed"]_vars

\* C5: every run id returned by create_task differs from every run id
\* returned by an earlier call.
C5_RunIdsNeverReused ==
    \A i, j \in DOMAIN returned : i # j => returned[i] # returned[j]

\* create_task has committed the row as Queued and has not spawned a child yet
RowCommittedBeforeSpawn ==
    (mgr.op = "idle" /\ mgr'.op = "create")
    => /\ active_tasks'[mgr'.id] # NoRow
       /\ active_tasks'[mgr'.id].agent_status = "Queued"
       /\ children' = children

\* a child is spawned only by a create_task that has committed the row
SpawnAfterCommit ==
    \A p \in Pids :
        (children[p].pc = "unborn" /\ children'[p].pc # "unborn")
        => /\ mgr.op = "create"
           /\ children'[p].task = mgr.id
           /\ active_tasks[mgr.id] # NoRow

\* this step spawns the child of the create_task call in progress
SpawnedNow ==
    \E p \in Pids : /\ children[p].pc = "unborn"
                    /\ children'[p].pc = "start"
                    /\ children'[p].task = mgr.id
                    /\ running_tasks'[mgr.id] = p

C7_RowDeletedAfterChildEnded ==
    [][\A id \in TaskIds :
         (active_tasks[id] # NoRow /\ active_tasks'[id] = NoRow)
         => \A p \in Pids : children'[p].task = id =>
                              children'[p].pc \in {"unborn", "dead"}]_vars

\* C8: when remove_task(run_id) returns, the store holds neither the task's
\* row nor a progress-log row of that run id.
C8_RemoveTaskDeletesRowAndLogs ==
    [][(mgr.op = "remove" /\ mgr'.op = "idle")
       => /\ active_tasks'[mgr.id] = NoRow
          /\ task_logs'[mgr.id] = NoRow]_vars

\* C9: if the run raised an exception after the payload was loaded, then when
\* the child has exited the stored status is Failed and the row records the
\* error.
C9_ExceptionRecordsFailedAndError ==
    [][\A p \in Pids :
         (/\ children[p].pc = "exiting"
          /\ children'[p].pc = "dead"
          /\ children'[p].rc = 0
          /\ children[p].outcome = "raised"
          /\ active_tasks'[children[p].task] # NoRow)
         => /\ active_tasks'[children[p].task].agent_status = "Failed"
            /\ active_tasks'[children[p].task].error]_vars

\* C10: when the executor completed normally, the stored agent_output is the
\* last tool output with end_task false, and the stored status is Completed.
C10_CompletedOutputHasEndTaskCleared ==
    [][\A p \in Pids :
         (/\ children[p].pc = "exiting"
          /\ children'[p].pc = "dead"
          /\ children'[p].rc = 0
          /\ children[p].outcome = "completed"
          /\ active_tasks'[children[p].task] # NoRow)
         => /\ active_tasks'[children[p].task].agent_output =
                  [children[p].last EXCEPT !.end_task = FALSE]
            /\ active_tasks'[children[p].task].agent_status = "Completed"]_vars

\* the stored progress list holds appended messages only, in the order of
\* their numbers
InAppendOrder(store, appended) ==
    /\ \A i \in DOMAIN store : store[i] \in Range(appended)
    /\ \A i, j \in DOMAIN store : i < j => store[i] < store[j]

C12_KillLosesAtMostLastMessage ==
    lg.pc = "killed" =>
        /\ Len(lg.mem) - Len(lg.store) <= 1
        /\ \A i \in DOMAIN lg.store : lg.store[i] = lg.mem[i]

\* this step is one LLM attempt
AttemptMade == llm.pc = "calling" /\ llm'.attempt = llm.attempt + 1

\* C13: an LLM turn makes at most max_attempts = 20 attempts; a turn whose
\* first 19 attempts failed with transient errors and whose 20th succeeded
\* has produced exactly one completion; when all 20 attempts failed with
\* transient errors the fatal error has been raised and the task has been set
\* to Failed exactly once.
C13_TwentyAttemptsThenFatal ==
    /\ llm.attempt <= max_attempts
    /\ llm.completions <= 1
    /\ (llm.pc = "returned" /\ llm.transient = max_attempts - 1 /\ llm.attempt = max_attempts)
       => llm.completions = 1
    /\ llm.transient = max_attempts
       => (llm.pc = "raised" /\ llm.fatal /\ llm.failed = 1)

\* C13 witness: a turn succeeded on its 20th attempt and a later turn has
\* failed 20 times with transient errors
C13_Witness ==
    /\ llm.eked
    /\ llm.transient = max_attempts
    /\ llm.pc = "raised"

\* C14: an attempt that meets a provider response with status 429, 500, 502,
\* 503 or 529 produces no assistant message and, unless it was the last
\* attempt of the turn, is followed by another attempt.
C14_RetryableStatusIsRetried ==
    [][(AttemptMade /\ llm'.last.status \in retryable_status_codes)
       => /\ llm'.completions = llm.completions
          /\ llm.attempt < max_attempts - 1 => llm'.pc = "calling"]_vars

\* C15: an attempt that fails with a non-retryable error, none having
\* occurred before in the turn, is followed by one further attempt, and when
\* the attempt after a non-retryable failure fails too the call aborts.
C15_NonRetryableRetriedOnce ==
    [][/\ (AttemptMade /\ llm'.lastkind = "other" /\ llm.nonretry = 0)
          => llm'.pc = "calling"
       /\ (AttemptMade /\ llm.lastkind = "other" /\ llm'.lastkind # "ok")
          => llm'.pc = "raised"]_vars

\* the message is a user message with a tool_result whose content is a JSON
\* object with end_task = true
HasEndTask(message) ==
    /\ message.role = "user"
    /\ \E j \in DOMAIN message.blocks :
          /\ message.blocks[j].type = "tool_result"
          /\ message.blocks[j].content = [json_object |-> TRUE, end_task |-> TRUE]

\* C16: after a tool step the loop halts if and only if one of the last 5
\* messages is a user message with a tool_result whose content parses as a
\* JSON object with end_task = true; such a result before the last 5
\* messages does not halt the loop.
C16_HaltsIffEndTaskInLastFive ==
    fn.route # "none" =>
        (fn.route = "END" <=>
            \E i \in DOMAIN fn.messages :
                i > Len(fn.messages) - 5 /\ HasEndTask(fn.messages[i]))

\* C16 witness: the loop goes on although an end_task result lies before the
\* last 5 messages
C16_Witness ==
    /\ fn.route = "agent"
    /\ \E i \in DOMAIN fn.messages :
          i <= Len(fn.messages) - 5 /\ HasEndTask(fn.messages[i])

\* the history agent_node has just truncated: the stored messages without
\* the assistant message of this turn
Truncated == SubSeq(ex.messages, 1, Len(ex.messages) - 1)

\* system message, user input, truncation notice and the last k messages
NoticeAndLast(full, k) ==
    <<full[1], full[2], TruncationNotice>> \o SubSeq(full, Len(full) - k + 1, Len(full))

C18_HandlerExceptionIsErrorResult ==
    \A i \in DOMAIN ex.done :
        ex.done[i].handler \in {"raises", "batch_child_raises"}
        => /\ ex.tool_outputs[i].is_error
           /\ ex.tool_outputs[i].output = "error_message"
           /\ ex.pc \in {"route", "agent"}

\* C19: for a server-executed tool call with id X the recorded result is the
\* provider's result if the response held a result for X, and an error
\* result only if it held none.
C19_ServerResultFoundByToolUseId ==
    \A i \in DOMAIN ex.done :
        ex.done[i].server_executed
        => ((\E b \in ex.result_blocks : b.tool_use_id = ex.done[i].id)
            <=> ex.tool_outputs[i] = [output |-> "server_result", is_error |-> FALSE])

\* C20: a store write that failed in a flush of the live handle, immediate
\* or delayed, has been surfaced to the caller as an error.
C20_FailedWriteIsSurfaced ==
    pd.failed => pd.raised

\* C21: every operation on the live handle that changes the contents of the
\* dict is followed by a _schedule_save call of the thread that made it, so
\* that a flush of the whole current state is scheduled.
C21_MutationSchedulesFlush ==
    [][pd'.mem # pd.mem => \E t \in Threads : ~pd.sched[t] /\ pd'.sched[t]]_vars

\* C22: at most one delayed flush (a threading.Timer that has been started
\* and has not yet run _delayed_save) is pending for the handle.
C22_AtMostOneDelayedFlushPending ==
    Len(pd.timers) <= 1

\* C23: a field of a task row written through one live handle (the
\* child_run_ids list and the related_log_ids key, which the delegate tool
\* writes through handles of its own) is not reverted when another live
\* handle of the same row (the run's payload, the manager's cached handle)
\* flushes the field it wrote: as long as the row exists, the stored lists
\* do not lose what was written last.
C23_FlushKeepsFieldsOfOtherHandle ==
    [][\A id \in TaskIds :
         (active_tasks[id] # NoRow /\ active_tasks'[id] # NoRow)
         => /\ active_tasks[id].has_child_run_ids => active_tasks'[id].has_child_run_ids
            /\ active_tasks[id].child_run_ids \subseteq active_tasks'[id].child_run_ids
            /\ active_tasks[id].has_related_log_ids => active_tasks'[id].has_related_log_ids]_vars

\* C24: a call of pre_generate_subtask_ids with the count of an earlier call
\* for the same run returns the ids the first such call returned and leaves
\* the stored (index -> id) rows as they were, whatever time has passed.
C24_PreGenerateIsIdempotent ==
    [][\A n \in 1..MaxSubtasks :
         (StPreGenerate(n) /\ st.first_ids[n] # <<>>)
         => /\ st'.generated_ids = st.first_ids[n]
            /\ st'.subtask_ids = st.subtask_ids]_vars

\* C25: whenever the stored status of the Planner run is Completed, the
\* subtask_ids rows of the run are exactly those of the indices
\* 0..len(subtasks)-1.
C25_CompletedPlannerHasSubtaskRows ==
    st.status = "Completed" =>
        \A i \in SubtaskIndices : (st.subtask_ids[i] # NoRow) <=> (i < st.subtasks)

\* the distinct elements of a sequence, in the order of their first occurrence
FirstOccurrences(seq) ==
    LET keep == {i \in DOMAIN seq : \A j \in 1..(i - 1) : seq[j] # seq[i]}
        nth(k) == CHOOSE i \in keep : Cardinality({j \in keep : j < i}) = k - 1
    IN [k \in 1..Cardinality(keep) |-> seq[nth(k)]]

\* C26: after any sequence of add_run_id_to_task calls on a task row, run_ids
\* holds each distinct run id once, in the order of first addition.
C26_RunIdsUniqueInFirstAdditionOrder ==
    st.has_task => st.run_ids = FirstOccurrences(st.adds)

\* C27: when a child call of a batch raises (every child naming a tool of
\* the toolbox), the other child calls are still invoked and the batch
\* returns one result entry per child.
C27_BatchContinuesAfterChildError ==
    (/\ bt.pc = "returned"
     /\ \E i \in DOMAIN bt.tool_calls : bt.tool_calls[i] = "raises"
     /\ \A i \in DOMAIN bt.tool_calls : bt.tool_calls[i] # "unknown_tool")
    => /\ bt.out.invoked = Len(bt.tool_calls)
       /\ Len(bt.out.results) = Len(bt.tool_calls)

\* C29: a worker process ends with exit status 0 only if its run ended in
\* success (the wrapper returned a Completed payload): a run that raised, or
\* a worker that did not find its task, does not exit with 0.
C29_ExitZeroOnlyOnSuccess ==
    [][\A p \in Pids :
         (children[p].pc = "exiting" /\ children'[p].pc = "dead" /\ children'[p].rc = 0)
         => children[p].outcome = "completed"]_vars

\* this step is the monitor's handling of the exited child of task id
Reconciled(id) == completed' = Append(completed, id)

\* C30: the monitor's reconciliation of an exited child changes the stored
\* status of the task only if the stored row shows Running; a terminal status
\* the worker has written is left as it is.
C30_MonitorChangesOnlyRunningRows ==
    [][\A id \in TaskIds :
         (/\ Reconciled(id)
          /\ active_tasks[id] # NoRow
          /\ active_tasks[id].agent_status # "Running")
         => active_tasks'[id] = active_tasks[id]]_vars

\* C30 witness: the monitor has handled the exit of a child that was killed
\* after it had stored Completed, and the row still shows Completed
C30_Witness ==
    \E id \in TaskIds :
        /\ id \in Range(completed)
        /\ running_tasks[id] # 0
        /\ children[running_tasks[id]].rc # 0
        /\ active_tasks[id] # NoRow
        /\ active_tasks[id].agent_status = "Completed"

\* C28: after cleanup has returned, no child process that was put into
\* running_tasks is still alive.
C28_NoChildAliveAfterCleanup ==
    mgr.op = "stopped" => \A p \in Pids : ~Alive(p)

\* C31: at any time at most one live child process belongs to a run id: two
\* different children that are both alive work on different tasks.
C31_OneLiveChildPerRun ==
    \A p, q \in Pids :
        (p # q /\ Alive(p) /\ Alive(q)) => children[p].task # children[q].task

\* C32: remove_task deletes the row of the task even when the monitor has
\* observed the exit of the child and removed it from running_tasks while
\* remove_task waited for the child to terminate.
C32_RemoveTaskDeletesDespiteMonitor ==
    [][(/\ mgr.op = "remove" /\ mgr.pc = "reap"
        /\ running_tasks[mgr.id] = 0
        /\ mgr'.op = "idle")
       => active_tasks'[mgr.id] = NoRow]_vars

\* the sequence s is an initial part of the sequence t
IsPrefix(s, t) == Len(s) <= Len(t) /\ SubSeq(t, 1, Len(s)) = s

\* C33: every replacement of the stored log document of a run keeps all
\* progress entries stored before, in their order: the stored progress list
\* only grows by appending, also when several live handles exist for the
\* same (run_id, agent_type).
C33_StoredProgressOnlyGrows ==
    [][IsPrefix(lg.store, lg'.store)]_vars

\* C34: after a Manager task has delegated to its engineer, the id of the
\* delegated run is in the child_run_ids of the parent's stored payload and
\* is still there in the payload stored when the Manager's process has ended.
C34_ChildRunIdInFinalPayload ==
    \A p \in Pids :
        LET parent_id == children[p].task
        IN (/\ children[p].pc = "dead" /\ children[p].rc = 0
            /\ parent_id \in MgrIds
            /\ active_tasks[parent_id] # NoRow
            /\ active_tasks[parent_id].agent_type = "PM"
            /\ active_tasks[SweOf(parent_id)] # NoRow)
           => SweOf(parent_id) \in active_tasks[parent_id].child_run_ids

\* C35: once the row of a task and its log rows have been deleted, no later
\* flush of a live handle that the manager or a still-running child holds
\* creates the task row or a log row of the task again.  (Steps of
\* create_task_sync and the construction of an AgentLogger are no flushes.)
C35_DeletedRowsStayDeleted ==
    [][\A id \in MgrIds :
          (/\ id \in Range(returned)
           /\ active_tasks[id] = NoRow /\ task_logs[id] = NoRow
           /\ ~(mgr.op = "idle" /\ mgr'.op = "create")
           /\ \A p \in Pids : children[p].pc = "setup" => children'[p].pc = "setup")
          => (active_tasks'[id] = NoRow /\ task_logs'[id] = NoRow)]_vars

\* C36: when a run ends Completed, the agent_output the wrapper stores is the
\* output of the tool call whose result carried end_task = true, also when
\* that call was not the last tool call of its assistant turn.
C36_OutputIsThatOfEndTaskCall ==
    [][\A p \in Pids :
          (/\ children[p].pc = "run"
           /\ children'[p].pc = "exiting"
           /\ children'[p].outcome = "completed")
          => LET mem == handles'[children[p].payload].mem
             IN /\ mem.agent_status = "Completed"
                /\ mem.agent_output = GenOut]_vars

C38_StoredStatusIsAgentStatus ==
    \A id \in DOMAIN active_tasks :
        active_tasks[id] # NoRow => active_tasks[id].agent_status \in AgentStatus

\* C39: the store keeps at most the last N debug messages: however many
\* are added, the number of rows of debug_messages never exceeds N, the
\* number of recent messages that a reader gets.
C39_AtMostNDebugMessages ==
    Len(st.debug_messages) <= debug_limit

\* C40: in the stored messages of a run, the system message and the original
\* user input are followed by messages that strictly alternate assistant,
\* user: every assistant message is followed by exactly one tool-result user
\* message before the next assistant message is appended.
C40_MessagesAlternate ==
    \A i \in DOMAIN ex.messages :
        ex.messages[i].role = IF i = 1 THEN "system"
                              ELSE IF i % 2 = 0 THEN "user" ELSE "assistant"

====
